---- MODULE Spec2Model ----
(***************************************************************************)
(* VolumeRendererCL: the OpenCL volume renderer.                           *)
(*                                                                         *)
(* Modelled here                                                           *)
(*   - the host orchestrator VolumeRenderCL (third revision held in        *)
(*     src/unnamed/part_005, lines 2205-3329): its parameter structs, the  *)
(*     setters, the transfer function upload with its prefix sum, the      *)
(*     frame function runRaycast and the buffers it copies or swaps;       *)
(*   - the kernel volumeRender of src/unnamed/part_000 (lines 589-926) for *)
(*     an image of one row of NumPix pixels whose rays run along the +z    *)
(*     axis of the volume: box intersection, step size, the 3D DDA over    *)
(*     the brick grid (only its z component ever advances for such rays),  *)
(*     sampling, compositing, early ray termination, the show-ESS overlay  *)
(*     and the accumulation.  Illumination and contours, which change only *)
(*     the colour of a sample, are left out: colours are the unshaded      *)
(*     ones of the transfer function;                                      *)
(*   - the kernel generateBricks (lines 932-961) along z.                  *)
(*                                                                         *)
(* Numbers.  The kernel computes colours and opacities in float.  The      *)
(* model computes the same expressions in fixed point: the real x is the   *)
(* integer floor(x * One).  Lengths along the ray are exact integers: the  *)
(* unit is voxLen = 1/volRes of the world cube [-1,1] (half a voxel),      *)
(* divided by the number of steps `samples` the kernel derives, so that    *)
(* tnear + k*stepSize is an integer for every k.  Densities are counted    *)
(* in units of 1/(2*TffSize), half a texel of the transfer function.       *)
(* 8-bit UNORM images hold levels 0..UCharMax.                             *)
(***************************************************************************)
EXTENDS Integers, Sequences, FiniteSets, TLC

(***************************************************************************)
(* Bounds of the model.                                                    *)
(***************************************************************************)
TffSize == 2          \* entries of the transfer-function table (1024 in the widget)
VolRes == 3           \* voxels of the volume along the ray
MaxIter == 2          \* frames rendered before the model stops counting
NumPix == 2           \* pixels of the output image
MaxCalls == 2         \* parameter setter calls explored in one run

(***************************************************************************)
(* Program constants.                                                      *)
(***************************************************************************)
UCharMax == 255       \* CL_UNORM_INT8: the largest level of a channel
TECH_RAYCAST == 0
TECH_PATHTRACE == 1

(***************************************************************************)
(* Fixed point.                                                            *)
(***************************************************************************)
One == 4096
ERT_THRESHOLD == (98 * One) \div 100   \* 0.98

Min(a, b) == IF a < b THEN a ELSE b
Max(a, b) == IF a > b THEN a ELSE b
Abs(x) == IF x < 0 THEN -x ELSE x
CeilDiv(a, b) == (a + b - 1) \div b

\* clamp(x, minval, maxval) of OpenCL C
clamp(x, lo, hi) == Min(Max(x, lo), hi)

FMul(x, y) == (x * y) \div One

\* native_powr(x, k) for the exponents k the model uses (1 and 2)
RECURSIVE native_powr(_, _)
native_powr(x, k) == IF k = 0 THEN One ELSE FMul(x, native_powr(x, k - 1))

\* read_imagef of a CL_UNORM_INT8 channel: level / 255
Unorm(l) == (l * One) \div UCharMax

\* write_imagef to a CL_UNORM_INT8 channel: saturate, round to the nearest level
ToUnorm(x) == clamp((x * UCharMax + One \div 2) \div One, 0, UCharMax)

\* floor of the square root
ISqrt(n) == CHOOSE r \in 0..n : r * r <= n /\ (r + 1) * (r + 1) > n

(***************************************************************************)
(* Transfer function: a table of TffSize RGBA entries of 8-bit levels.     *)
(* The model keeps one colour channel c and the alpha channel a.           *)
(***************************************************************************)
Alpha(tff) == [i \in 1..Len(tff) |-> tff[i].a]

\* a copy in place of the running sum: C7 has to tell it from partial_sum
adjacent_copy(s) == s

\* std::partial_sum: the inclusive running sum
RECURSIVE partial_sum(_)
partial_sum(s) ==
    IF Len(s) = 0 THEN << >>
    ELSE LET p == partial_sum(SubSeq(s, 1, Len(s) - 1))
         IN  Append(p, (IF Len(p) = 0 THEN 0 ELSE p[Len(p)]) + s[Len(s)])

\* the alphas copied (3034-3037) and left as they are: C24 has to tell it from
\* PrefixSumOf
AlphasOf(tff) == Alpha(tff)

\* setTransferFunction, lines 3034-3039: the alpha channel, then its running sum
PrefixSumOf(tff) == partial_sum(Alpha(tff))

\* read_imagef(tffData, linearSmp, density): normalized coordinate, linear filter,
\* CLK_ADDRESS_CLAMP_TO_EDGE.  The density is num/den half texels; texel i
\* (0-based) has its centre at 2i+1 half texels.  Returns [c, a] in fixed point.
TffLinear(tff, num, den) ==
    LET n  == Len(tff)
        u  == num - den
        i0 == u \div (2 * den)
        f  == u % (2 * den)
        j0 == clamp(i0, 0, n - 1) + 1
        j1 == clamp(i0 + 1, 0, n - 1) + 1
        mix(x, y) == ((2 * den - f) * Unorm(x) + f * Unorm(y)) \div (2 * den)
    IN  [a |-> mix(tff[j0].a, tff[j1].a), c |-> mix(tff[j0].c, tff[j1].c)]

\* read_imageui(tffPrefix, nearestSmp, density): normalized coordinate, nearest
\* filter, CLK_ADDRESS_CLAMP: a coordinate outside the image reads the border 0.
PrefixNearest(prefix, d2) ==
    LET i == d2 \div 2
    IN  IF i >= 0 /\ i < Len(prefix) THEN prefix[i + 1] ELSE 0

(***************************************************************************)
(* Kernel generateBricks (part_000 932-961), along z.  The volume is a     *)
(* sequence of VolRes densities; the brick grid has nb cells.              *)
(***************************************************************************)
DensityOne == 2 * TffSize      \* the density 1.0 in half texels

\* ceilf(volume_res / brickDivisor): the size of the brick texture
bricksTexSize(res, brickDivisor) == CeilDiv(res, brickDivisor)

SeqMin(vol, lo, hi, init) ==
    LET vals == {vol[k + 1] : k \in lo..hi} \cup {init}
    IN  CHOOSE m \in vals : \A v \in vals : m <= v

SeqMax(vol, lo, hi, init) ==
    LET vals == {vol[k + 1] : k \in lo..hi} \cup {init}
    IN  CHOOSE m \in vals : \A v \in vals : m >= v

\* one work item: the cell `coord` of a grid of nb cells
generateBrick(vol, nb, coord) ==
    LET res           == Len(vol)
        voxPerCell    == CeilDiv(res, nb)
        volCoordLower == voxPerCell * coord
        volCoordUpper == clamp(volCoordLower + voxPerCell, 0, res - 1)
    IN  [min |-> SeqMin(vol, volCoordLower, volCoordUpper - 1, DensityOne),
         max |-> SeqMax(vol, volCoordLower, volCoordUpper - 1, 0)]

generateBricks(vol, brickDivisor) ==
    LET nb == bricksTexSize(Len(vol), brickDivisor)
    IN  [c \in 1..nb |-> generateBrick(vol, nb, c - 1)]

(***************************************************************************)
(* Kernel volumeRender, the ray casting part (part_000 708-896).           *)
(* The record e holds what the loops read; every length in it is in        *)
(* voxLen/samples.                                                         *)
(***************************************************************************)
\* read_imagef(volData, nearestSmp, pos).x with pos = z/(2*volRes): the voxel
\* that holds z, the border value 0 outside the volume
VolNearest(vol, zS, samples) ==
    LET i == zS \div (2 * samples)
    IN  IF i >= 0 /\ i < Len(vol) THEN vol[i + 1] ELSE 0

\* read_imagef(volData, linearSmp, pos).x: the two voxels whose centres enclose z,
\* clamped to the edge, weighted by the distance; the result is in units of
\* 1/(2*samples) half texels
VolLinear(vol, zS, samples) ==
    LET u  == zS - samples
        i0 == u \div (2 * samples)
        f  == u % (2 * samples)
        j0 == clamp(i0, 0, Len(vol) - 1) + 1
        j1 == clamp(i0 + 1, 0, Len(vol) - 1) + 1
    IN  (2 * samples - f) * vol[j0] + f * vol[j1]

\* lines 805-806: the density at z as a fraction of half texels
Density(vol, zS, samples, useLinear) ==
    IF useLinear THEN [num |-> VolLinear(vol, zS, samples), den |-> 2 * samples]
    ELSE [num |-> VolNearest(vol, zS, samples), den |-> 1]

\* a ray that never terminates early: C9 has to tell it from ErtReached
NeverReached(alpha) == FALSE

\* line 869: alpha > ERT_THRESHOLD
ErtReached(alpha) == alpha > ERT_THRESHOLD

\* lines 792-866: one sample taken at st.t and composited front to back
Composite(e, st) ==
    LET zS       == st.t - e.shiftS
        depthCue == One - ((st.t - e.tnearS) * One) \div e.sampleDistS
        blend(col, opacity) ==
            LET result == st.result - FMul(FMul(col, opacity), One - st.alpha)
                alpha  == st.alpha + FMul(opacity, One - st.alpha)
            IN  [st EXCEPT !.result = result, !.alpha = alpha, !.pos = zS,
                           !.sampled = TRUE,
                           !.trace = Append(@, [alpha |-> alpha, t |-> st.t,
                                                result |-> result])]
        shade(tfColor) ==
            LET w == IF e.aerial THEN FMul(tfColor.a, depthCue) ELSE tfColor.a
            IN  blend(e.envirCol - tfColor.c,
                      One - native_powr(One - w, e.refSamplingInterval))
        classify(density) == shade(TffLinear(e.tff, density.num, density.den))
    IN  classify(Density(e.vol, zS, e.samples, e.useLinear))

\* lines 871-876: ambient occlusion darkens the colour of a terminated ray
ApplyAO(e, st) ==
    IF e.useAO THEN [st EXCEPT !.result = FMul(@, One - e.ao \div 2)] ELSE st

\* a loop that creeps forward by less than stepSize: C18 has to tell it from
\* RaycastLoop
RECURSIVE RaycastLoopCreeping(_, _, _)
RaycastLoopCreeping(e, st, t_exit) ==
    IF st.t >= t_exit THEN st
    ELSE LET step(c) ==
                 IF c.t >= e.tfarS THEN c
                 ELSE IF ErtReached(c.alpha) THEN ApplyAO(e, c)
                 ELSE RaycastLoopCreeping(e, [c EXCEPT !.t = c.t + 1], t_exit)
         IN  step(Composite(e, st))

\* lines 790-880: the standard raycasting loop up to t_exit
RECURSIVE RaycastLoop(_, _, _)
RaycastLoop(e, st, t_exit) ==
    IF st.t >= t_exit THEN st
    ELSE LET step(c) ==
                 IF c.t >= e.tfarS THEN c
                 ELSE IF ErtReached(c.alpha) THEN ApplyAO(e, c)
                 ELSE RaycastLoop(e, [c EXCEPT !.t = c.t + e.stepS], t_exit)
         IN  step(Composite(e, st))

\* lines 777-787: the brick holds only fully transparent voxels
BrickTransparent(tff, prefix, minMaxDensity) ==
    LET alphaMax  == TffLinear(tff, minMaxDensity.max, 1).a
        prefixMin == PrefixNearest(prefix, minMaxDensity.min)
        prefixMax == PrefixNearest(prefix, minMaxDensity.max)
    IN  alphaMax <= (One - 1) \div 1000000 /\ prefixMin = prefixMax

\* read_imagef(volBrickData, (int4)(cell, 0)).xy
ReadBrick(bricks, cell) ==
    IF cell >= 0 /\ cell < Len(bricks) THEN bricks[cell + 1] ELSE [min |-> 0, max |-> 0]

\* lines 763-885: the DDA loop over the brick grid
RECURSIVE DdaLoop(_, _)
DdaLoop(e, st) ==
    IF st.t >= e.tfarS THEN st
    ELSE LET t_exit == clamp(st.tv, st.t + e.stepS, st.t + e.brickDiaS)
             leave(s2) ==
                 IF s2.t >= e.tfarS \/ ErtReached(s2.alpha) THEN s2
                 ELSE IF s2.cell = e.exit THEN s2
                 ELSE DdaLoop(e, [s2 EXCEPT !.t = t_exit])
             enter(s1, skip) ==
                 IF skip THEN DdaLoop(e, [s1 EXCEPT !.t = t_exit])
                 ELSE leave(RaycastLoop(e, s1, t_exit))
             visit(minMaxDensity, skip) ==
                 enter([st EXCEPT !.cell = @ + 1, !.tv = @ + e.deltaT,
                                  !.seen = Append(@, [min |-> minMaxDensity.min,
                                                      max |-> minMaxDensity.max,
                                                      cell |-> st.cell,
                                                      skipped |-> skip])],
                       skip)
             brick(minMaxDensity) ==
                 visit(minMaxDensity, BrickTransparent(e.tff, e.prefix, minMaxDensity))
         IN  brick(ReadBrick(e.bricks, st.cell))

\* lines 889-896 with checkBoundingBox (323-342): the last sample position lies at
\* an edge of the volume; pos is (0,0,0) when the ray took no sample
checkBoundingBox(st, xNear, res, samples) ==
    IF ~st.sampled THEN TRUE
    ELSE xNear /\ (st.pos < 2 * samples \/ st.pos > (2 * res - 2) * samples)

\* lines 708-896.  camera.viewMat.z is the distance from the camera to the front
\* face of the volume, camera.bbox.zlo/zhi the clip box, all in voxLen;
\* raycast.samplingRate holds 1/samplingRate; rand is the pixel's random number
\* (0 or 1), xNear says that the ray runs in the first or last voxel column.
RayCast(volData, volBrickData, tffData, tffPrefix, camera, render, raycast, ess, envirCol, rand, xNear) ==
    LET camDist     == camera.viewMat.z
        tnear       == camera.bbox.zlo + camDist
        tfar        == camera.bbox.zhi + camDist
        sampleDist  == tfar - tnear
        samples     == CeilDiv(sampleDist, raycast.samplingRate)
        tnearS      == Max(0, tnear) * samples
        offsetS     == ISqrt(12 * rand * rand * samples * samples)
        brickLen    == (Len(volData) * raycast.brickCountF.den) \div raycast.brickCountF.num
        bricksRes   == Len(volBrickData)
        rayOrigCell == tnearS - camDist * samples
        cell        == clamp(rayOrigCell \div (2 * brickLen * samples), 0, bricksRes - 1)
        st0 == [alpha |-> 0, t |-> tnearS, result |-> envirCol, pos |-> 0,
                sampled |-> FALSE, trace |-> << >>,
                cell |-> cell,
                tv |-> tnearS + (cell + 1) * 2 * brickLen * samples - rayOrigCell, seen |-> << >>]
        write(e, st, box) ==
            [samples |-> e.samples,
             alpha  |-> IF box THEN One ELSE st.alpha,
             result |-> IF box THEN Abs(One - render.backgroundColor) ELSE st.result,
             trace  |-> st.trace,
             tfarS  |-> e.tfarS,
             stepS  |-> e.stepS,
             seen   |-> st.seen]
        show(e, st) ==
            write(e, st, render.showEss /\ checkBoundingBox(st, xNear, Len(volData), samples))
        march(e) ==
            show(e, IF ess THEN DdaLoop(e, st0) ELSE RaycastLoop(e, st0, e.tfarS))
    IN  march([tff |-> tffData, prefix |-> tffPrefix, vol |-> volData,
               samples |-> samples, useLinear |-> render.useLinear,
               shiftS |-> offsetS + camDist * samples, tnearS |-> tnearS,
               sampleDistS |-> sampleDist * samples, aerial |-> raycast.aerial,
               envirCol |-> envirCol,
               refSamplingInterval |-> raycast.samplingRate, useAO |-> raycast.useAO,
               ao |-> rand * One,
               tfarS |-> tfar * samples, stepS |-> sampleDist,
               bricks |-> volBrickData,
               brickDiaS |-> ISqrt(12 * brickLen * brickLen * samples * samples),
               exit |-> bricksRes,
               deltaT |-> 2 * brickLen * samples])

\* trace_volume (463-503) reduced to its first free-flight sample: an interaction
\* happens when the alpha of the voxel at the entry point is at least the random
\* number, and returns that voxel's colour; otherwise the background colour
trace_volume(volData, tffData, camera, rand, backgroundColor) ==
    LET i  == clamp(camera.bbox.zlo \div 2, 0, Len(volData) - 1)
        tf == TffLinear(tffData, volData[i + 1], 1)
    IN  IF tf.a >= rand * One /\ tf.a > 0 THEN tf.c ELSE backgroundColor

\* lines 692-701 and 899-908: the value written to outAccumulate
Accumulate(prevCol, col, iteration) ==
    IF iteration = 0 THEN col ELSE prevCol + (col - prevCol) \div (iteration + 1)

\* ParallelRNG3(x, y, seed) / UINT_MAX, reduced to the two values 0 and 1
ParallelRNG3(x, y, z) == (x + y + z \div 2 + z * x) % 2

(***************************************************************************)
(* Kernel volumeRender, one work item (part_000 589-926).  The image is    *)
(* one row of pixels 1..NumPix, one pixel wide each; the volume covers     *)
(* the columns between camera.bbox.xlo and camera.bbox.xhi.                *)
(***************************************************************************)
Pixels == 1..NumPix

\* getLastHit (513-525): the sum over the tile and its eight neighbours.  The
\* image has one tile; `rest` stands for the entries of the hit image that no
\* work-group owns, oob for the reads at coordinate -1, outside the image.
getLastHit(inHitImg, oob) == inHitImg.tile + 3 * inHitImg.rest + 5 * oob

\* lines 653-656 for a horizontal ray and no environment map
EnvirCol(render) ==
    IF render.useGradient THEN FMul(render.backgroundColor, (7 * One) \div 10)
    ELSE render.backgroundColor

\* What one work item writes: img to outImg, acc to outAccumulate (wAcc says
\* whether it writes it at all), hitZero a 0 to outHitImg before an early return;
\* atEnd says that it reaches the reduce phase, differs that its result is not
\* the background; sample is the colour of this frame before accumulation and
\* blends says that the colour read from inAccumulate went into the result.
volumeRender(globalId, volData, volBrickData, tffData, tffPrefix, inAccumulate, lastHit, camera, render, raycast, ess) ==
    LET rand     == ParallelRNG3(globalId, 0, render.seed)
        rand2    == ParallelRNG3(0, globalId, 2 * render.seed)
        x        == globalId + camera.viewMat.x + rand2
        envirCol == EnvirCol(render)
        tnear    == camera.bbox.zlo + camera.viewMat.z
        tfar     == camera.bbox.zhi + camera.viewMat.z
        hit      == camera.bbox.xlo < x /\ x < camera.bbox.xhi /\ tfar > tnear
        xNear    == x <= 1 \/ x >= NumPix
        prevCol  == Unorm(inAccumulate[globalId])
        early(c, h) == [img |-> ToUnorm(c), wAcc |-> FALSE, acc |-> 0, hitZero |-> h,
                        atEnd |-> FALSE, differs |-> FALSE, sample |-> c,
                        blends |-> FALSE]
    IN  IF render.imgEss /\ lastHit = 0
        THEN early(IF render.showEss THEN One - envirCol ELSE envirCol, TRUE)
        ELSE IF ~hit \/ tfar < 0
        THEN early(envirCol, render.imgEss)
        ELSE IF render.technique = TECH_PATHTRACE
        THEN LET s   == trace_volume(volData, tffData, camera, rand, envirCol)
                 col == Accumulate(prevCol, s, render.iteration)
             IN  [img |-> ToUnorm(col), wAcc |-> TRUE, acc |-> ToUnorm(col),
                  hitZero |-> FALSE, atEnd |-> FALSE, differs |-> FALSE,
                  sample |-> s, blends |-> render.iteration # 0]
        ELSE LET shade(r, col) ==
                     [img |-> ToUnorm(col), wAcc |-> TRUE, acc |-> ToUnorm(col),
                      hitZero |-> FALSE, atEnd |-> TRUE, differs |-> col # envirCol,
                      sample |-> r.result, blends |-> render.iteration # 0]
                 blend(r) == shade(r, Accumulate(prevCol, r.result, render.iteration))
             IN  blend(RayCast(volData, volBrickData, tffData, tffPrefix, camera,
                               render, raycast, ess, envirCol, rand, xNear))

(***************************************************************************)
(* Inputs the model draws from.                                            *)
(***************************************************************************)
Levels == {0, 128, UCharMax}                 \* channel levels of table entries
Tables == [1..TffSize -> [a : Levels, c : {0, UCharMax}]]
Transparent == [i \in 1..TffSize |-> [a |-> 0, c |-> 0]]
Opaque == [i \in 1..TffSize |-> [a |-> UCharMax, c |-> 0]]
Densities == {1, DensityOne - 1, DensityOne} \* first texel, last texel, 1.0
Volumes == [1..VolRes -> Densities]
BrickDivisors == {1, 2}
SamplingRates == {1, 2}                      \* 1/samplingRate
Seeds == {0, 1}
Garbage == {0, UCharMax}                     \* contents of an uninitialised image
Identity == [x |-> 0, z |-> -VolRes]         \* the camera in the centre of the volume
Outside == [x |-> 0, z |-> 1]                \* the camera in front of the volume
Views == {Outside, [x |-> 1, z |-> 1]}
FullBox == [zlo |-> 0, zhi |-> 2 * VolRes, xlo |-> 0, xhi |-> NumPix + 1]
ClipBoxes == {FullBox, [FullBox EXCEPT !.zlo = 1]}

(***************************************************************************)
(* State of the host object VolumeRenderCL (part_003 42-78 and 444-470).   *)
(* An image that does not exist yet is the empty sequence.  The kernel     *)
(* arguments CAMERA, RAYCAST and PATHTRACE are bound in every function     *)
(* that changes the struct, and RENDERING is bound again by                *)
(* setMemObjectsRaycast at every dispatch, so a dispatch reads the values  *)
(* of the host structs.                                                    *)
(***************************************************************************)
VARIABLES
    volLoaded,      \* _volLoaded
    timestep,       \* _timestep
    volData,        \* _volumesMem: the densities of the volume
    bricksMem,      \* _bricksMem: the (min, max) pairs of the brick grid
    tffMem,         \* _tffMem
    tffPrefixMem,   \* _tffPrefixMem
    camera,         \* _camera_params
    rendering,      \* _rendering_params; seed, written anew before every dispatch, is left out
    raycast,        \* _raycast_params
    pathtrace,      \* _pathtrace_params
    objEss,         \* the raycast kernel is built with -DESS
    useImgESS,      \* _useImgESS
    outputMem,      \* _outputMem
    inAccumulate,   \* _inAccumulate
    outAccumulate,  \* _outAccumulate
    inputHitMem,    \* _inputHitMem
    outputHitMem,   \* _outputHitMem
    calls,          \* history: parameter setter calls made so far
    changed,        \* history: -1, or the iteration counter before the first change of view,
                    \*   table, clip box or technique since the last dispatch
    dispatch,       \* history: the iteration the last dispatch ran with
    sample,         \* history: the colour each pixel got in the last frame, before accumulation
    accAge,         \* history: per pixel of the accumulation buffers, where its value comes from
    outAge,         \* history: per pixel of the output image, the same
    rayOn,          \* the ray cast with object-order ESS
    rayOff,         \* the same ray cast without
    path,           \* the path traced by trace_volume
    group,          \* history: what the work items of the last work-group did
    ndrange,        \* the size of the output image, and the global size of the last dispatch
    handles,        \* which image each of the four image members refers to; 0 is no image
    queue,          \* _queueCL: the commands enqueued and running, and where the host is
    rawData,        \* _dr._raw_data: the bytes of the file read last; _dr.has_data()
    props,          \* _dr._prop: the declared resolution, format and channel order
    device,         \* _contextCL with _queueCL, the kernels, and _useGL of the renderer
    useGL,          \* VolumeRenderWidget::_useGL
    report,         \* history: the strategies the last call tried, and what it logged
    request,        \* history: the last call that can fail, with its input
    outcome         \* what that call left to its caller

params  == <<camera, rendering, raycast, pathtrace, objEss, useImgESS>>
volume  == <<volLoaded, timestep, volData, bricksMem>>
tables  == <<tffMem, tffPrefixMem>>
images  == <<outputMem, inAccumulate, outAccumulate, inputHitMem, outputHitMem>>
history == <<changed, dispatch, sample, accAge, outAge>>
rays    == <<rayOn, rayOff, path, group, ndrange>>
queueing == <<handles, queue>>
shell   == <<rawData, props, device, useGL, report, request, outcome>>
vars    == <<params, volume, tables, images, calls, history, rays, queueing, shell>>

\* the image members before updateOutputImg has run (part_003 444-470)
NoImages == [inAccumulate |-> 0, outAccumulate |-> 0, inputHitMem |-> 0, outputHitMem |-> 0]

\* the command queue as initialize creates it (part_005 2318-2322): nothing
\* enqueued, nothing running, the host outside of every call; wrote is history:
\* the hit image the last frame was bound to write with _useImgESS set, 0 when
\* there is none or the images were resized since
EmptyQueue == [pending |-> << >>, running |-> {}, host |-> "idle", wrote |-> 0]

\* no output image yet, nothing dispatched
NoRange == [width |-> 0, height |-> 0, global |-> << >>]

\* DatRawReader::Properties as the constructor leaves it (datrawreader.h 72-83)
NoProperties == [volume_res |-> 0, format |-> "", image_channel_order |-> "R"]

\* the renderer's device state: the strategy its context was created with, the
\* context its kernels were built for, and _useGL
NoDevice == [useGL |-> TRUE, context |-> "none", kernels |-> "none"]
Initialized(strategy) ==
    [useGL |-> strategy = "GPU_GL", context |-> strategy, kernels |-> strategy]

\* nothing tried, nothing logged
NoReport == [tried |-> << >>, critical |-> << >>]

\* what a call leaves to its caller: nothing, or the exception it throws
NoError == [thrown |-> "none", what |-> ""]
Thrown(type, what) == [thrown |-> type, what |-> what]

\* the state after the constructor (2242-2250), the device apart
Constructed ==
    /\ volLoaded = FALSE
    /\ timestep = 0
    /\ volData = << >>
    /\ bricksMem = << >>
    /\ tffMem = << >>
    /\ tffPrefixMem = << >>
    /\ camera = [viewMat |-> Identity, bbox |-> FullBox, ortho |-> FALSE]
    /\ rendering = [useLinear |-> TRUE, backgroundColor |-> One, showEss |-> FALSE,
                    iteration |-> 0, useGradient |-> FALSE, imgEss |-> FALSE,
                    technique |-> TECH_RAYCAST, illumType |-> 1]
    /\ raycast = [aerial |-> FALSE, useAO |-> FALSE, samplingRate |-> 1,
                  brickCountF |-> [num |-> 1, den |-> 1], contours |-> FALSE]
    /\ pathtrace = [max_extinction |-> 100]
    /\ objEss = TRUE
    /\ useImgESS = FALSE
    /\ outputMem = << >>
    /\ inAccumulate = << >>
    /\ outAccumulate = << >>
    /\ inputHitMem = << >>
    /\ outputHitMem = << >>
    /\ calls = 0
    /\ changed = -1
    /\ dispatch = [iteration |-> 0, ran |-> FALSE, afterChange |-> FALSE, before |-> -1]
    /\ sample = << >>
    /\ accAge = << >>
    /\ outAge = << >>
    /\ rayOn = << >>
    /\ rayOff = << >>
    /\ group = << >>
    /\ ndrange = NoRange
    /\ path = << >>
    /\ handles = NoImages
    /\ queue = EmptyQueue
    /\ rawData = << >>
    /\ props = NoProperties
    /\ useGL = TRUE
    /\ report = NoReport
    /\ request = [op |-> "none"]
    /\ outcome = NoError

\* the state after the constructor and initialize()
Init == Constructed /\ device = Initialized("GPU_GL")

\* a reset that leaves the counter alone: C1 has to tell it from resetIteration
keepIteration(r) == r

\* resetIteration (2635-2639)
resetIteration(r) == [r EXCEPT !.iteration = 0]

\* what a reset means for the values the accumulation buffers hold: a value a
\* frame wrote since the last reset is from now on a value from before the reset
AgeAtReset(age) == [p \in DOMAIN age |-> IF age[p] = "fresh" THEN "stale" ELSE age[p]]

\* the history of a call that leaves a new value in the view, the table, the
\* clip box or the technique
Change(differs) ==
    changed' = IF differs /\ changed < 0 THEN rendering.iteration ELSE changed

\* a parameter setter is called: the model explores MaxCalls of them
SetterCall == calls < MaxCalls /\ calls' = calls + 1

(***************************************************************************)
(* Host functions of VolumeRenderCL (part_005).                            *)
(***************************************************************************)
HostVolumes == {[i \in 1..VolRes |-> IF i = 1 THEN 1 ELSE DensityOne - 1]}
HostTables == {Transparent, Opaque}

\* sizeof of a sample of the declared format (2881-2899)
formatMultiplier(format) ==
    CASE format = "UCHAR" -> 1 [] format = "USHORT" -> 2 [] format = "FLOAT" -> 4

\* the channel orders volDataToCLmem maps to an image format (2866-2879)
ChannelOrders == {"R", "", "I", "LUMINANCE", "RG", "RGBA", "ARGB", "BGRA"}

\* A file handed to the loader: datOk says that the metadata can be read and
\* names a raw file, rawOk that the raw file can be opened; volume_res is the
\* declared number of voxels (along z, one voxel wide), format the declared
\* sample format ("" when the declaration is missing), raw the bytes of the raw
\* file.  A byte is a density in half texels.
RawFile(v) ==
    [volume_res |-> Len(v), format |-> "UCHAR", image_channel_order |-> "R", datOk |-> TRUE,
     rawOk |-> TRUE, raw |-> v]

\* DatRawReader::read_raw (3640-3730): the buffer of one timestep.  UCHAR bytes
\* are taken as they are; USHORT and FLOAT samples are scaled so that the largest
\* becomes 1.0, and bytes after the last whole sample stay 0; with no declared
\* format nothing is read into the zero-filled buffer
read_raw(format, raw) ==
    LET m     == formatMultiplier(format)
        whole == m * (Len(raw) \div m)
        top   == SeqMax(raw, 0, Len(raw) - 1, 0)
    IN  IF format = "" THEN [i \in 1..Len(raw) |-> 0]
        ELSE IF format = "UCHAR" \/ top = 0 THEN raw
        ELSE [i \in 1..Len(raw) |->
                IF i > whole THEN 0 ELSE (raw[i] * DensityOne) \div top]

\* DatRawReader::read_files with read_dat and read_raw (3369-3780): raw_data is
\* the reader's _raw_data after the call, one buffer per timestep
read_files(raw_data, file) ==
    LET bytes    == Len(file.raw) \div file.volume_res
        declared == [volume_res |-> file.volume_res, format |-> file.format,
                     image_channel_order |-> file.image_channel_order]
    IN  IF ~file.datOk
        THEN [raw_data |-> raw_data, prop |-> NoProperties,
              error |-> Thrown("runtime_error", "Missing raw file names declaration")]
        ELSE IF ~file.rawOk
        THEN [raw_data |-> << >>, prop |-> declared,
              error |-> Thrown("runtime_error", "Could not open")]
        ELSE IF file.format = "" /\ bytes \notin {1, 2, 4}
        THEN [raw_data |-> <<read_raw(file.format, file.raw)>>, prop |-> declared,
              error |-> Thrown("runtime_error",
                               "Could not resolve missing format specification.")]
        ELSE [raw_data |-> <<read_raw(file.format, file.raw)>>,
              prop |-> [declared EXCEPT !.format =
                          IF file.format # "" THEN file.format
                          ELSE IF bytes = 1 THEN "UCHAR"
                          ELSE IF bytes = 2 THEN "USHORT" ELSE "FLOAT"],
              error |-> NoError]

\* volDataToCLmem (2858-2926) for one timestep: the image holds the first
\* volume_res samples of the buffer; the model keeps the last byte of a sample
volDataToCLmem(volumesMem, raw_data, prop) ==
    IF prop.image_channel_order \notin ChannelOrders
    THEN [raw_data |-> raw_data, error |-> Thrown("invalid_argument", "Unknown or invalid volume color format."),
          volumesMem |-> volumesMem]
    ELSE IF prop.format \notin {"UCHAR", "USHORT", "FLOAT"}
    THEN [raw_data |-> raw_data, error |-> Thrown("invalid_argument", "Unknown or invalid volume data format."),
          volumesMem |-> volumesMem]
    ELSE IF prop.volume_res * formatMultiplier(prop.format) > Len(raw_data[1])
    THEN [raw_data |-> << >>, error |-> Thrown("runtime_error",
                           "Volume size does not match size specified in dat file."),
          volumesMem |-> << >>]
    ELSE [raw_data |-> raw_data,
          error |-> NoError, volumesMem |-> [i \in 1..prop.volume_res |->
                            raw_data[1][i * formatMultiplier(prop.format)]]]

\* loadVolumeData (2934-2961) of a file of one timestep, with generateBricks
\* (2791-2852); the default brick divisor is declared in a header that is not
\* among the sources, so it is an input
loadVolumeData(file, brickDivisor) ==
    /\ request' = [op |-> "loadVolumeData", file |-> file]
    /\ \E r \in {read_files(rawData, file)} :
          /\ props' = r.prop
          /\ IF r.error # NoError
             THEN /\ volLoaded' = FALSE
                  /\ rawData' = r.raw_data
                  /\ outcome' = r.error
                  /\ UNCHANGED <<volData, bricksMem, raycast>>
             ELSE \E m \in {volDataToCLmem(volData, r.raw_data, r.prop)} :
                     /\ rawData' = m.raw_data
                     /\ volData' = m.volumesMem
                     /\ IF m.error # NoError
                        THEN /\ volLoaded' = FALSE
                             /\ outcome' = Thrown("runtime_error", m.error.what)
                             /\ UNCHANGED <<bricksMem, raycast>>
                        ELSE /\ volLoaded' = TRUE
                             /\ outcome' = NoError
                             /\ bricksMem' = generateBricks(m.volumesMem, brickDivisor)
                             /\ raycast' = [raycast EXCEPT !.brickCountF =
                                 [num |-> file.volume_res, den |-> brickDivisor]]
    /\ UNCHANGED <<timestep, camera, rendering, pathtrace, objEss, useImgESS>>
    /\ UNCHANGED <<tables, images, calls, history, rays, queueing, device, useGL, report>>

\* updateOutputImg (2646-2684): the images are created anew; only the input hit
\* image is initialised (with ones)
updateOutputImg ==
    /\ \E g \in Garbage :
          /\ outputMem' = [p \in Pixels |-> g]
          /\ inAccumulate' = [p \in Pixels |-> g]
          /\ outAccumulate' = [p \in Pixels |-> g]
          /\ outputHitMem' = [tile |-> IF g = 0 THEN 0 ELSE 1,
                              rest |-> IF g = 0 THEN 0 ELSE 1]
    /\ inputHitMem' = [tile |-> 1, rest |-> 1]
    /\ sample' = [p \in Pixels |-> 0]
    /\ accAge' = [p \in Pixels |-> "none"]
    /\ outAge' = [p \in Pixels |-> "none"]
    /\ UNCHANGED <<params, volume, tables, calls, changed, dispatch, rays, queueing, shell>>

\* updateView (2560-2571)
updateView(viewMat) ==
    /\ rawData # << >>
    /\ SetterCall
    /\ camera' = [camera EXCEPT !.viewMat = viewMat]
    /\ rendering' = resetIteration(rendering)
    /\ Change(viewMat # camera.viewMat)
    /\ accAge' = AgeAtReset(accAge)
    /\ UNCHANGED <<raycast, pathtrace, objEss, useImgESS, volume, tables, images>>
    /\ UNCHANGED <<dispatch, sample, outAge, rays, queueing, shell>>

\* setBBox (2994-3001)
setBBox(bbox) ==
    /\ SetterCall
    /\ camera' = [camera EXCEPT !.bbox = bbox]
    /\ rendering' = resetIteration(rendering)
    /\ Change(bbox # camera.bbox)
    /\ accAge' = AgeAtReset(accAge)
    /\ UNCHANGED <<raycast, pathtrace, objEss, useImgESS, volume, tables, images>>
    /\ UNCHANGED <<dispatch, sample, outAge, rays, queueing, shell>>

\* setTransferFunction (3020-3047) with setTffPrefixSum (3054-3072)
setTransferFunction(tff) ==
    /\ rawData # << >>
    /\ SetterCall
    /\ tffMem' = tff
    /\ tffPrefixMem' = PrefixSumOf(tff)
    /\ rendering' = resetIteration(rendering)
    /\ Change(tff # tffMem)
    /\ accAge' = AgeAtReset(accAge)
    /\ UNCHANGED <<camera, raycast, pathtrace, objEss, useImgESS, volume, images>>
    /\ UNCHANGED <<dispatch, sample, outAge, rays, queueing, shell>>

\* setTechnique (3198-3203)
setTechnique(tech) ==
    /\ SetterCall
    /\ rendering' = resetIteration([rendering EXCEPT !.technique = tech])
    /\ Change(tech # rendering.technique)
    /\ accAge' = AgeAtReset(accAge)
    /\ UNCHANGED <<camera, raycast, pathtrace, objEss, useImgESS, volume, tables, images>>
    /\ UNCHANGED <<dispatch, sample, outAge, rays, queueing, shell>>

\* setTimestep (3322-3329); the loaded volume has one timestep
setTimestep(t) ==
    /\ ~(rawData # << >> /\ t >= Len(rawData))
    /\ SetterCall
    /\ timestep' = t
    /\ rendering' = resetIteration(rendering)
    /\ accAge' = AgeAtReset(accAge)
    /\ UNCHANGED <<camera, raycast, pathtrace, objEss, useImgESS>>
    /\ UNCHANGED <<volLoaded, volData, bricksMem, tables, images>>
    /\ UNCHANGED <<changed, dispatch, sample, outAge, rays, queueing, shell>>

\* the setters that write one field of _rendering_params and bind the struct:
\* setIllumination (3088), setShowESS (3110), setLinearInterpolation (3121),
\* setBackground (3181), setUseGradient (3192)
SetRendering(field, value) ==
    /\ SetterCall
    /\ rendering' = [rendering EXCEPT ![field] = value]
    /\ UNCHANGED <<camera, raycast, pathtrace, objEss, useImgESS>>
    /\ UNCHANGED <<volume, tables, images, history, rays, queueing, shell>>

setIllumination(illum) == SetRendering("illumType", illum)
setShowESS(showESS) == SetRendering("showEss", showESS)
setLinearInterpolation(linearSampling) == SetRendering("useLinear", linearSampling)
setBackground(color) == SetRendering("backgroundColor", color)
setUseGradient(useGradient) == SetRendering("useGradient", useGradient)

\* setImgEss (3151-3156)
setImgEss(useEss) ==
    /\ SetterCall
    /\ rendering' = [rendering EXCEPT !.imgEss = useEss]
    /\ useImgESS' = useEss
    /\ UNCHANGED <<camera, raycast, pathtrace, objEss>>
    /\ UNCHANGED <<volume, tables, images, history, rays, queueing, shell>>

\* the setters that write one field of _raycast_params and bind the struct:
\* updateSamplingRate (2578), setAmbientOcclusion (3099), setContours (3131),
\* setAerial (3141)
SetRaycast(field, value) ==
    /\ SetterCall
    /\ raycast' = [raycast EXCEPT ![field] = value]
    /\ UNCHANGED <<camera, rendering, pathtrace, objEss, useImgESS>>
    /\ UNCHANGED <<volume, tables, images, history, rays, queueing, shell>>

updateSamplingRate(samplingRate) == SetRaycast("samplingRate", samplingRate)
setAmbientOcclusion(ao) == SetRaycast("useAO", ao)
setContours(contours) == SetRaycast("contours", contours)
setAerial(aerial) == SetRaycast("aerial", aerial)

\* setCamOrtho (3078-3082)
setCamOrtho(ortho) ==
    /\ SetterCall
    /\ camera' = [camera EXCEPT !.ortho = ortho]
    /\ UNCHANGED <<rendering, raycast, pathtrace, objEss, useImgESS>>
    /\ UNCHANGED <<volume, tables, images, history, rays, queueing, shell>>

\* setObjEss (3162-3175): the kernel is built again, with or without -DESS, and
\* the volume is uploaded again
setObjEss(useEss) ==
    /\ SetterCall
    /\ objEss' = useEss
    /\ UNCHANGED <<camera, rendering, raycast, pathtrace, useImgESS>>
    /\ UNCHANGED <<volume, tables, images, history, rays, queueing, shell>>

\* setExtinction (3312-3316)
setExtinction(extinction) ==
    /\ SetterCall
    /\ pathtrace' = [pathtrace EXCEPT !.max_extinction = extinction]
    /\ UNCHANGED <<camera, rendering, raycast, objEss, useImgESS>>
    /\ UNCHANGED <<volume, tables, images, history, rays, queueing, shell>>

\* the RENDERING argument of a dispatch: setMemObjectsRaycast (2376-2401) draws
\* the seed from _generator and binds the struct
WithSeed(r, seed) ==
    [f \in DOMAIN r \cup {"seed"} |-> IF f = "seed" THEN seed ELSE r[f]]

\* the work items 1..n of one dispatch (2699-2701): what each of them computes
\* from the images and parameters bound at the dispatch
RECURSIVE WorkItems(_, _, _)
WorkItems(n, lastHit, render) ==
    IF n = 0 THEN << >>
    ELSE Append(WorkItems(n - 1, lastHit, render),
                volumeRender(n, volData, bricksMem, tffMem, tffPrefixMem,
                             inAccumulate, lastHit, camera, render, raycast, objEss))

\* _volumesMem.size() and _bricksMem.size(): the model keeps the texture of one
\* timestep, so a member holds one texture or none
Textures(mem) == IF mem = << >> THEN 0 ELSE 1

\* operator[] in place of at(): C30 has to tell it from at
subscript(size, t) == TRUE

\* std::vector::at in setMemObjectsRaycast (2379-2380): the access goes through
\* when t < size() and throws std::out_of_range otherwise
at(size, t) == t < size

\* the values the work items of one dispatch write to the one texel of the
\* output hit image the model follows, in some order (kernel lines 667, 681 and
\* 918-924); without a write the texel keeps its value
HitWrites(px, imgEss, before) ==
    LET zeros   == {0 : p \in {q \in Pixels : px[q].hitZero}}
        verdict == IF imgEss /\ px[1].atEnd
                   THEN {IF \E q \in Pixels : px[q].atEnd /\ px[q].differs
                         THEN 1 ELSE 0}
                   ELSE {}
    IN  IF zeros \cup verdict = {} THEN {before} ELSE zeros \cup verdict

\* runRaycast (2716-2744) with raycast (2691-2710): one dispatch of the kernel
\* over all pixels, the swap of the hit images, the copy of the accumulation
\* image and the increment of the iteration.  Binding an image that does not
\* exist, or a timestep without a volume, throws before the dispatch.
runRaycast ==
    /\ volLoaded
    /\ at(Textures(volData), timestep)
    /\ at(Textures(bricksMem), timestep)
    /\ tffMem # << >>
    /\ outputMem # << >>
    /\ rendering.iteration < MaxIter
    /\ \E seed \in Seeds, oob \in {0, 1} :
          /\ oob = 0 \/ rendering.imgEss
          /\ \E px \in {WorkItems(NumPix, getLastHit(inputHitMem, oob),
                                  WithSeed(rendering, seed))} :
                /\ outputMem' = [p \in Pixels |-> px[p].img]
                /\ outAccumulate' = [p \in Pixels |->
                                       IF px[p].wAcc THEN px[p].acc ELSE outAccumulate[p]]
                /\ inAccumulate' = outAccumulate'
                \* lines 667, 681: a 0 from every work item that returns early;
                \* lines 918-924: the verdict of the group from its first work item
                /\ \E h \in HitWrites(px, rendering.imgEss, outputHitMem.tile) :
                      LET outHit == [outputHitMem EXCEPT !.tile = h]
                      IN  IF useImgESS
                          THEN inputHitMem' = outHit /\ outputHitMem' = inputHitMem
                          ELSE inputHitMem' = inputHitMem /\ outputHitMem' = outHit
                /\ sample' = [p \in Pixels |-> px[p].sample]
                /\ accAge' = [p \in Pixels |->
                                IF px[p].wAcc /\ ~px[p].blends THEN "fresh"
                                ELSE accAge[p]]
                /\ outAge' = [p \in Pixels |->
                                IF px[p].blends THEN accAge[p] ELSE "fresh"]
    /\ rendering' = [rendering EXCEPT !.iteration = @ + 1]
    /\ dispatch' = [iteration |-> rendering.iteration, ran |-> TRUE, afterChange |-> changed >= 0,
                    before |-> changed]
    /\ changed' = -1
    /\ UNCHANGED <<camera, raycast, pathtrace, objEss, useImgESS>>
    /\ UNCHANGED <<volume, tables, calls, rays, queueing, shell>>

(***************************************************************************)
(* One ray of the kernel on its own: the scene is drawn at the start, and   *)
(* the ray is cast by the kernel built with -DESS and by the kernel built   *)
(* without (part_005 2330-2332), with the same random number.               *)
(***************************************************************************)
RayTables == [1..TffSize -> [a : Levels, c : {0}]]
RayDivisors == {2}

InitRay ==
    /\ volLoaded = TRUE
    /\ timestep = 0
    /\ volData \in Volumes
    /\ \E d \in RayDivisors :
          /\ bricksMem = generateBricks(volData, d)
          /\ \E r \in SamplingRates, a \in BOOLEAN :
                raycast = [aerial |-> a, useAO |-> FALSE, samplingRate |-> r,
                           brickCountF |-> [num |-> Len(volData), den |-> d],
                           contours |-> FALSE]
    /\ tffMem \in RayTables
    /\ tffPrefixMem = PrefixSumOf(tffMem)
    /\ \E b \in ClipBoxes : camera = [viewMat |-> Outside, bbox |-> b, ortho |-> FALSE]
    /\ \E l \in BOOLEAN :
          rendering = [useLinear |-> l, backgroundColor |-> One, showEss |-> FALSE,
                       iteration |-> 0, useGradient |-> FALSE, imgEss |-> FALSE,
                       technique |-> TECH_RAYCAST, illumType |-> 1]
    /\ pathtrace = [max_extinction |-> 100]
    /\ objEss = TRUE
    /\ useImgESS = FALSE
    /\ outputMem = << >>
    /\ inAccumulate = << >>
    /\ outAccumulate = << >>
    /\ inputHitMem = << >>
    /\ outputHitMem = << >>
    /\ calls = 0
    /\ changed = -1
    /\ dispatch = [iteration |-> 0, ran |-> FALSE, afterChange |-> FALSE, before |-> -1]
    /\ sample = << >>
    /\ accAge = << >>
    /\ outAge = << >>
    /\ rayOn = << >>
    /\ rayOff = << >>
    /\ group = << >>
    /\ ndrange = NoRange
    /\ path = << >>
    /\ handles = NoImages
    /\ queue = EmptyQueue
    /\ rawData = <<volData>>
    /\ props = [volume_res |-> Len(volData), format |-> "UCHAR",
                image_channel_order |-> "R"]
    /\ device = Initialized("GPU_GL")
    /\ useGL = TRUE
    /\ report = NoReport
    /\ request = [op |-> "loadVolumeData", file |-> RawFile(volData)]
    /\ outcome = NoError

\* the ray casting part of volumeRender (part_000 709-896) for one work item
\* that hits the clip box, in both builds of the kernel
castRay ==
    /\ rayOn = << >>
    /\ \E rand \in {0, 1} :
          /\ rayOn' = <<RayCast(volData, bricksMem, tffMem, tffPrefixMem, camera,
                                 rendering, raycast, TRUE,
                                 rendering.backgroundColor, rand, FALSE)>>
          /\ rayOff' = <<RayCast(volData, bricksMem, tffMem, tffPrefixMem, camera,
                                  rendering, raycast, FALSE,
                                  rendering.backgroundColor, rand, FALSE)>>
    /\ UNCHANGED <<params, volume, tables, images, calls, history, path, group, ndrange, queueing, shell>>

NextRay == castRay

SpecRay == InitRay /\ [][NextRay]_vars

(***************************************************************************)
(* Claims about one ray.  The rays that have been cast are the elements of *)
(* rayOn and rayOff; a density d addresses the table entry                 *)
(* Min(d \div 2, TffSize - 1) + 1, so that 1.0 addresses the last one.     *)
(***************************************************************************)
\* C3: with the same volume, transfer function, camera and random number, the
\* pixel the kernel with object-order empty-space skipping computes is the
\* pixel the kernel without it computes, colour and alpha.
C3_EssSameImage ==
    rayOn # << >> =>
        /\ ToUnorm(rayOn[1].result) = ToUnorm(rayOff[1].result)
        /\ ToUnorm(rayOn[1].alpha) = ToUnorm(rayOff[1].alpha)

\* C4: a brick the traversal visits is skipped if and only if the prefix sum
\* at its maximum density equals the one at its minimum density, and the two
\* are equal exactly when no table entry from the minimum to the maximum has
\* alpha.
C4_SkipIffNoAlphaMass ==
    rayOn # << >> =>
        \A k \in DOMAIN rayOn[1].seen :
            LET b     == rayOn[1].seen[k]
                lo    == Min(b.min \div 2, TffSize - 1) + 1
                hi    == Min(b.max \div 2, TffSize - 1) + 1
                equal == tffPrefixMem[hi] = tffPrefixMem[lo]
            IN  /\ b.skipped <=> equal
                /\ equal <=> \A i \in lo..hi : tffMem[i].a = 0

C10_AlphaMonotone ==
    \A r \in {rayOn[i] : i \in DOMAIN rayOn} \cup {rayOff[i] : i \in DOMAIN rayOff} :
        \A i \in DOMAIN r.trace :
            /\ r.trace[i].alpha >= 0
            /\ r.trace[i].alpha <= One
            /\ r.trace[i].alpha >= (IF i = 1 THEN 0 ELSE r.trace[i - 1].alpha)

(***************************************************************************)
(* Loading on its own: files that are well formed and files that are not,  *)
(* one after the other, so that a load meets the state an earlier one left.*)
(***************************************************************************)
Buffers(b) == {[i \in 1..n |-> b] : n \in 0..(2 * VolRes + 1)}
Volumes1 == {[i \in 1..n |-> 1] : n \in 1..VolRes}
Files ==
    [volume_res : 1..VolRes, format : {"UCHAR"}, image_channel_order : {"R"}, datOk : {TRUE},
     rawOk : {TRUE}, raw : Buffers(0) \cup Buffers(1)]
    \cup [volume_res : 1..VolRes, format : {"", "USHORT"}, image_channel_order : {"R"},
          datOk : {TRUE}, rawOk : {TRUE}, raw : Buffers(1)]
    \cup {[RawFile(v) EXCEPT !.datOk = FALSE] : v \in Volumes1}
    \cup {[RawFile(v) EXCEPT !.rawOk = FALSE] : v \in Volumes1}
    \cup {[RawFile(v) EXCEPT !.image_channel_order = "RGB"] : v \in Volumes1}

NextLoad == \E file \in Files, d \in BrickDivisors : loadVolumeData(file, d)

SpecLoad == Init /\ [][NextLoad]_vars

\* C11: after the brick builder ran on a volume whose voxels are all zero, every
\* cell of the brick grid holds (min = 0, max = 0)
C11_ZeroVolumeZeroBricks ==
    volLoaded /\ (\A i \in DOMAIN volData : volData[i] = 0)
        => \A c \in DOMAIN bricksMem : bricksMem[c] = [min |-> 0, max |-> 0]

\* C12: loading a file whose buffer size is not the declared resolution times
\* the byte size of the declared format fails with the data-mismatch error
C12_SizeMismatchFails ==
    /\ request.op = "loadVolumeData"
    /\ request.file.datOk /\ request.file.rawOk
    /\ request.file.format # ""
    /\ request.file.image_channel_order \in ChannelOrders
    /\ Len(request.file.raw) #
          request.file.volume_res * formatMultiplier(request.file.format)
    => outcome = Thrown("runtime_error",
                        "Volume size does not match size specified in dat file.")

\* C13: a load that fails leaves the volume data of the reader, the device
\* textures and the loaded flag as they were before the call
C13_FailedLoadKeepsState ==
    [][request'.op = "loadVolumeData" /\ outcome'.thrown # "none"
        => /\ rawData' = rawData
           /\ volData' = volData
           /\ bricksMem' = bricksMem
           /\ volLoaded' = volLoaded]_vars

\* lines 741-750 of the kernel: the cell of the brick grid the DDA is in at the
\* position pos (in half voxels) of a volume of res voxels
DdaCell(pos, res, rc, bricksRes) ==
    LET brickLen == (res * rc.brickCountF.den) \div rc.brickCountF.num
    IN  clamp(pos \div (2 * brickLen), 0, bricksRes - 1)

\* C29: for every voxel of a loaded volume, the density of the voxel lies
\* between the min and the max of the brick cell the DDA is in at the centre
\* of the voxel
C29_BrickBoundsVoxel ==
    volLoaded =>
       \A v \in 1..Len(volData) :
          \E c \in {DdaCell(2 * v - 1, Len(volData), raycast, Len(bricksMem))} :
             /\ bricksMem[c + 1].min <= volData[v]
             /\ volData[v] <= bricksMem[c + 1].max

\* C25: when the brick counts the traversal divides by (raycast.brickRes in the
\* kernel, _raycast_params.brickCountF on the host) are not the dimensions of
\* the brick grid, the load raises an error and the traversal is switched off
C25_MismatchIsFatal ==
    /\ request.op = "loadVolumeData"
    /\ volLoaded
    /\ raycast.brickCountF.num # Len(bricksMem) * raycast.brickCountF.den
    => /\ outcome.thrown # "none"
       /\ ~objEss

(***************************************************************************)
(* Device initialisation (part_005 2277-2370, volumerenderwidget.cpp       *)
(* 251-280).  A platform says which contexts can be created on the machine *)
(* and whether the kernel program builds.                                  *)
(***************************************************************************)
Platforms == [GPU_GL : BOOLEAN, GPU : BOOLEAN, CPU : BOOLEAN, build : BOOLEAN]

\* a chain that goes to the CPU before the GPU without sharing: C14 has to tell
\* it from Strategy
CpuFirst(useGLArg, useCPU) ==
    IF useGLArg /\ ~useCPU THEN "GPU_GL" ELSE IF useCPU THEN "GPU" ELSE "CPU"

\* initialize, lines 2280-2313: the context the arguments ask for
Strategy(useGLArg, useCPU) ==
    IF useGLArg /\ ~useCPU THEN "GPU_GL" ELSE IF useCPU THEN "CPU" ELSE "GPU"

\* createCLGLContext and createCLContext throw a cl::Error when the platform has
\* no such device; buildProgramFromSource when the program does not build
createCLContext(platform, strategy) == platform[strategy]
buildProgramFromSource(platform) == platform.build

\* initialize (2277-2341) with initKernel (2349-2370) and logCLerror (2265-2271):
\* ready says that this call created the context and the kernels
initialize(dev, raw_data, prop, volumesMem, useGLArg, useCPU, platform) ==
    LET strategy == Strategy(useGLArg, useCPU)
        begun    == IF strategy = "GPU_GL" THEN [dev EXCEPT !.useGL = TRUE] ELSE dev
        failed(d, what) ==
            [device |-> d, strategy |-> strategy, raw_data |-> raw_data,
             error |-> Thrown("runtime_error", what), volumesMem |-> volumesMem,
             ready |-> FALSE]
        upload(m) ==
            [device |-> Initialized(strategy), strategy |-> strategy,
             raw_data |-> m.raw_data, error |-> m.error, volumesMem |-> m.volumesMem,
             ready |-> TRUE]
    IN  IF ~createCLContext(platform, strategy)
        THEN failed(begun, "ERROR: clCreateContext")
        ELSE IF ~buildProgramFromSource(platform)
        THEN failed([begun EXCEPT !.context = strategy, !.useGL = strategy = "GPU_GL"],
                    "ERROR: clBuildProgram")
        ELSE IF raw_data = << >>
        THEN upload([raw_data |-> raw_data, error |-> NoError, volumesMem |-> volumesMem])
        ELSE upload(volDataToCLmem(volumesMem, raw_data, prop))

\* an exception that a handler does not rethrow: C15 has to tell it from Propagate
Swallow(error) == NoError

\* an exception thrown inside a catch block (268, 273) leaves initVolumeRenderer
Propagate(error) == error

\* the note qCritical adds when it takes the fallback to a strategy (266, 272)
FallbackNote(strategy) ==
    IF strategy = "GPU" THEN "Disabling OpenGL context sharing."
    ELSE "Switching to CPU rendering mode."

\* the attempt a as an entry of the report
Attempt(a) == [strategy |-> a.strategy, ready |-> a.ready]

\* the end of initVolumeRenderer: the state the last attempt a left
Initialised(a, tried, critical, widgetGL, error) ==
    /\ device' = a.device
    /\ volData' = a.volumesMem
    /\ rawData' = a.raw_data
    /\ useGL' = widgetGL
    /\ report' = [tried |-> tried, critical |-> critical]
    /\ outcome' = error

\* VolumeRenderWidget::initVolumeRenderer (251-280)
initVolumeRenderer(useGLArg, useCPU, platform) ==
    /\ request' = [op |-> "initVolumeRenderer", platform |-> platform]
    /\ \E a1 \in {initialize(device, rawData, props, volData, useGLArg, useCPU, platform)} :
          IF a1.error = NoError
          THEN Initialised(a1, <<Attempt(a1)>>, << >>, useGL, NoError)
          ELSE IF a1.error.thrown = "invalid_argument"
          THEN Initialised(a1, <<Attempt(a1)>>, <<[what |-> a1.error.what, note |-> ""]>>,
                           useGL, NoError)
          ELSE \E a2 \in {initialize(a1.device, a1.raw_data, props, a1.volumesMem,
                                     FALSE, FALSE, platform)} :
                  IF a2.error.thrown # "runtime_error"
                  THEN Initialised(a2, <<Attempt(a1), Attempt(a2)>>,
                                   <<[what |-> a1.error.what,
                                      note |-> FallbackNote(a2.strategy)]>>,
                                   FALSE, Propagate(a2.error))
                  ELSE \E a3 \in {initialize(a2.device, a2.raw_data, props,
                                             a2.volumesMem, FALSE, TRUE, platform)} :
                          Initialised(a3, <<Attempt(a1), Attempt(a2), Attempt(a3)>>,
                                      <<[what |-> a1.error.what,
                                         note |-> FallbackNote(a2.strategy)],
                                        [what |-> a2.error.what,
                                         note |-> FallbackNote(a3.strategy)]>>,
                                      FALSE, Propagate(a3.error))
    /\ UNCHANGED <<params, volLoaded, timestep, bricksMem, tables, images, calls>>
    /\ UNCHANGED <<history, rays, queueing, props>>

\* the widget before initializeGL
InitDevice == Constructed /\ device = NoDevice

\* files loaded between two initialisations: a well-formed one and two that fail
DeviceFiles ==
    {RawFile(<<1>>), [RawFile(<<1>>) EXCEPT !.image_channel_order = "RGB"],
     [RawFile(<<1>>) EXCEPT !.datOk = FALSE]}

\* initializeGL (243) and reloadKernels (1578) call initVolumeRenderer with its
\* default arguments; volumes are loaded once a device is there
NextDevice ==
    \/ \E platform \in Platforms : initVolumeRenderer(TRUE, FALSE, platform)
    \/ /\ device.kernels # "none"
       /\ \E file \in DeviceFiles : loadVolumeData(file, 2)

SpecDevice == InitDevice /\ [][NextDevice]_vars

C15_ExhaustedIsFatal ==
    request.op = "initVolumeRenderer"
        /\ (\A i \in DOMAIN report.tried : ~report.tried[i].ready)
        => outcome.thrown # "none"

\* C15 witness: the three strategies were tried, all failed, and the exception
\* left initVolumeRenderer
C15_Witness ==
    /\ request.op = "initVolumeRenderer"
    /\ Len(report.tried) = 3
    /\ \A i \in DOMAIN report.tried : ~report.tried[i].ready
    /\ outcome.thrown = "runtime_error"

(***************************************************************************)
(* A frame as the widget renders it (volumerenderwidget.cpp 513-540).      *)
(***************************************************************************)
\* VolumeRenderWidget::paintGL with the display sharing on: runRaycast inside a
\* try whose only handler catches std::runtime_error.  clError says that the
\* device reports an error when the frame is enqueued; binding an image that
\* was never created is such an error too.  _volumesMem.at(t) in
\* setMemObjectsRaycast (2379) throws std::out_of_range, which is no cl::Error
\* and no std::runtime_error.
paintGL(clError) ==
    /\ volLoaded
    /\ useGL
    /\ \/ /\ ~at(Textures(volData), timestep) \/ ~at(Textures(bricksMem), timestep)
          /\ request' = [op |-> "paintGL"]
          /\ outcome' = Thrown("out_of_range", "vector::_M_range_check")
          /\ report' = NoReport
          /\ UNCHANGED <<params, volume, tables, images, calls, history, rays, queueing>>
          /\ UNCHANGED <<rawData, props, device, useGL>>
       \/ /\ at(Textures(volData), timestep) /\ at(Textures(bricksMem), timestep)
          /\ clError \/ tffMem = << >> \/ outputMem = << >>
          /\ request' = [op |-> "paintGL"]
          /\ outcome' = NoError
          /\ report' = [tried |-> << >>,
                        critical |-> <<[what |-> "ERROR: clEnqueue", note |-> ""]>>]
          /\ UNCHANGED <<params, volume, tables, images, calls, history, rays, queueing>>
          /\ UNCHANGED <<rawData, props, device, useGL>>
       \/ /\ ~clError
          /\ runRaycast

NextFrame ==
    \/ \E v \in HostVolumes, d \in BrickDivisors : loadVolumeData(RawFile(v), d)
    \/ updateOutputImg
    \/ \E t \in HostTables : setTransferFunction(t)
    \/ \E t \in {0, 1} : setTimestep(t)
    \/ \E clError \in BOOLEAN : paintGL(clError)

SpecFrame == Init /\ [][NextFrame]_vars

\* frames between loads that succeed and loads that fail, changes of the
\* timestep and initialisations of the device (initializeGL and reloadKernels)
StepPlatforms == {p \in Platforms : p.GPU_GL /\ p.GPU}

NextSteps ==
    \/ \E platform \in StepPlatforms : initVolumeRenderer(TRUE, FALSE, platform)
    \/ /\ device.kernels # "none"
       /\ \E file \in DeviceFiles : loadVolumeData(file, 2)
    \/ updateOutputImg
    \/ setTransferFunction(Opaque)
    \/ \E t \in {0, 1} : setTimestep(t)
    \/ \E clError \in BOOLEAN : paintGL(clError)

SpecSteps == InitDevice /\ [][NextSteps]_vars

\* C30: whenever a frame is dispatched, a volume is loaded and the timestep is
\* below the number of volume textures and below the number of brick textures
C30_TimestepInRange ==
    [][rendering'.iteration = rendering.iteration + 1 =>
          /\ volLoaded
          /\ timestep < Textures(volData)
          /\ timestep < Textures(bricksMem)]_vars

\* C30 witness: a frame was dispatched after the device had been initialised
\* anew with the volume in the reader
C30_Witness ==
    /\ dispatch.ran
    /\ rendering.iteration > 0
    /\ request.op = "initVolumeRenderer"
    /\ volLoaded
    /\ rawData # << >>
    /\ timestep = 0

\* C16: no exception leaves the rendering of a frame: an error is logged and the
\* frame is skipped
C16_FrameErrorsAreCaught == request.op = "paintGL" => outcome.thrown = "none"


FreeFlightBound == 512

\* in_volume (93-96): strictly inside the unit cube
in_volume(pos, res) == pos > 0 /\ pos < 2 * res

\* get_extinction (400-405) and the table lookup of line 428
Extinction(vol, tff, pos) == TffLinear(tff, VolLinear(vol, pos, 1), 2)

\* the random numbers the model draws
Thresholds == {0, One \div 2, One}
Flights == {0, 100, 200 * VolRes}

\* tables with the same alpha in every entry
FlatTables == {[i \in 1..TffSize |-> [a |-> l, c |-> 0]] : l \in Levels}

\* a loaded volume and a table, seen through a clip box in path tracing mode
InitPath ==
    /\ volLoaded = TRUE
    /\ timestep = 0
    /\ volData \in Volumes
    /\ bricksMem = generateBricks(volData, 2)
    /\ raycast = [aerial |-> FALSE, useAO |-> FALSE, samplingRate |-> 1,
                  brickCountF |-> [num |-> Len(volData), den |-> 2], contours |-> FALSE]
    /\ tffMem \in FlatTables
    /\ tffPrefixMem = PrefixSumOf(tffMem)
    /\ \E b \in ClipBoxes : camera = [viewMat |-> Outside, bbox |-> b, ortho |-> FALSE]
    /\ rendering = [useLinear |-> TRUE, backgroundColor |-> One, showEss |-> FALSE,
                    iteration |-> 0, useGradient |-> FALSE, imgEss |-> FALSE,
                    technique |-> TECH_PATHTRACE, illumType |-> 1]
    /\ pathtrace = [max_extinction |-> 100]
    /\ objEss = TRUE
    /\ useImgESS = FALSE
    /\ outputMem = << >>
    /\ inAccumulate = << >>
    /\ outAccumulate = << >>
    /\ inputHitMem = << >>
    /\ outputHitMem = << >>
    /\ calls = 0
    /\ changed = -1
    /\ dispatch = [iteration |-> 0, ran |-> FALSE, afterChange |-> FALSE, before |-> -1]
    /\ sample = << >>
    /\ accAge = << >>
    /\ outAge = << >>
    /\ rayOn = << >>
    /\ rayOff = << >>
    /\ group = << >>
    /\ ndrange = NoRange
    /\ path = << >>
    /\ handles = NoImages
    /\ queue = EmptyQueue
    /\ rawData = <<volData>>
    /\ props = [volume_res |-> Len(volData), format |-> "UCHAR",
                image_channel_order |-> "R"]
    /\ device = Initialized("GPU_GL")
    /\ useGL = TRUE
    /\ report = NoReport
    /\ request = [op |-> "loadVolumeData", file |-> RawFile(volData)]
    /\ outcome = NoError

\* trace_volume (463-503) up to the call of sample_interaction, for the ray that
\* enters the clip box at camera.bbox.zlo: the colour starts as the background
\* colour (474), and sample_interaction starts with t = 0 and cnt = 0 (416-419)
tracePath ==
    /\ path = << >>
    /\ \E u \in Thresholds, f \in Flights :
          path' = <<[t |-> 0,
                     rand |-> [u |-> u, flight |-> f], running |-> TRUE, color |-> rendering.backgroundColor,
                     ray_pos |-> camera.bbox.zlo,
                     cnt |-> 0, isInteraction |-> FALSE, exhausted |-> FALSE]>>
    /\ UNCHANGED <<params, volume, tables, images, calls, history, rayOn, rayOff, group, ndrange, queueing, shell>>

\* the loop body without the test of line 430
freeFlightUncapped(p, cnt, t, color) ==
    IF ~in_volume(p.ray_pos + t, Len(volData))
    THEN [p EXCEPT !.cnt = cnt, !.t = t, !.running = FALSE]
    ELSE IF color.a < p.rand.u
         THEN [p EXCEPT !.cnt = cnt, !.t = t]
         ELSE [p EXCEPT !.cnt = cnt, !.t = t, !.running = FALSE,
                        !.isInteraction = TRUE, !.color = color.c,
                        !.ray_pos = p.ray_pos + t]

\* one pass through the do-while loop of sample_interaction (422-432) and, when
\* the loop ends, the return to trace_volume: the colour is replaced only after
\* an interaction (434, 476), whose shading (477-500) is reduced to the colour
\* of the sample, and is returned with weight 1 otherwise (502)
freeFlight(p, cnt, t, color) ==
    IF ~in_volume(p.ray_pos + t, Len(volData))
    THEN [p EXCEPT !.cnt = cnt, !.t = t, !.running = FALSE]
    ELSE IF cnt > FreeFlightBound
         THEN [p EXCEPT !.cnt = cnt, !.t = t, !.running = FALSE, !.exhausted = TRUE]
         ELSE IF color.a < p.rand.u
              THEN [p EXCEPT !.cnt = cnt, !.t = t]
              ELSE [p EXCEPT !.cnt = cnt, !.t = t, !.running = FALSE,
                             !.isInteraction = TRUE, !.color = color.c,
                             !.ray_pos = p.ray_pos + t]

sample_interaction ==
    /\ path # << >>
    /\ path[1].running
    /\ \E t \in {path[1].t + path[1].rand.flight \div pathtrace.max_extinction} :
          path' = <<freeFlight(path[1], path[1].cnt + 1, t,
                               Extinction(volData, tffMem, path[1].ray_pos + t))>>
    /\ UNCHANGED <<params, volume, tables, images, calls, history, rayOn, rayOff, group, ndrange, queueing, shell>>

NextPath == tracePath \/ sample_interaction

SpecPath == InitPath /\ [][NextPath]_vars

\* C17 as stated: the free-flight loop of every traced path performs at most
\* 512 iterations, and a path that exhausts the bound has the background colour
C17_FreeFlightBounded ==
    \A i \in 1..Len(path) :
       /\ path[i].cnt <= FreeFlightBound
       /\ path[i].exhausted => path[i].color = rendering.backgroundColor

\* C17 amended: the free-flight loop of every traced path starts at most 513
\* iterations, one more than the bound, because the counter is tested against
\* 512 with > after the sample of the iteration has been taken; a path that
\* exhausts the bound has finished without interaction and has the background
\* colour
C17_FreeFlightBoundedByOneMore ==
    \A i \in 1..Len(path) :
       /\ path[i].cnt <= FreeFlightBound + 1
       /\ path[i].exhausted =>
             /\ ~path[i].running
             /\ ~path[i].isInteraction
             /\ path[i].color = rendering.backgroundColor

\* C17: a path whose free flights never leave the volume and never meet enough
\* alpha has exhausted the bound
C17_Witness ==
    /\ path # << >>
    /\ path[1].exhausted
    /\ path[1].cnt = FreeFlightBound + 1
    /\ path[1].color = rendering.backgroundColor

(***************************************************************************)
(* One work-group of volumeRender (part_000 589-926): the work items of    *)
(* the one tile of the image, with the hit image of the frame before bound *)
(* as inHitImg.  The work item with local id (0, 0) is pixel 1.            *)
(***************************************************************************)
InitGroup ==
    /\ volLoaded = TRUE
    /\ timestep = 0
    /\ volData \in Volumes
    /\ bricksMem = generateBricks(volData, 2)
    /\ raycast = [aerial |-> FALSE, useAO |-> FALSE, samplingRate |-> 1,
                  brickCountF |-> [num |-> Len(volData), den |-> 2], contours |-> FALSE]
    /\ tffMem \in FlatTables
    /\ tffPrefixMem = PrefixSumOf(tffMem)
    /\ \E v \in Views : camera = [viewMat |-> v, bbox |-> FullBox, ortho |-> FALSE]
    /\ \E s \in BOOLEAN, tech \in {TECH_RAYCAST, TECH_PATHTRACE} :
          rendering = [useLinear |-> TRUE, backgroundColor |-> One, showEss |-> s,
                       iteration |-> 0, useGradient |-> FALSE, imgEss |-> TRUE,
                       technique |-> tech, illumType |-> 1]
    /\ pathtrace = [max_extinction |-> 100]
    /\ objEss = TRUE
    /\ useImgESS = TRUE
    /\ outputMem = [p \in Pixels |-> 0]
    /\ inAccumulate = [p \in Pixels |-> 0]
    /\ outAccumulate = [p \in Pixels |-> 0]
    /\ \E last \in {0, 1} : inputHitMem = [tile |-> last, rest |-> 0]
    /\ \E old \in {0, 1} : outputHitMem = [tile |-> old, rest |-> 0]
    /\ calls = 0
    /\ changed = -1
    /\ dispatch = [iteration |-> 0, ran |-> FALSE, afterChange |-> FALSE, before |-> -1]
    /\ sample = [p \in Pixels |-> 0]
    /\ accAge = [p \in Pixels |-> "none"]
    /\ outAge = [p \in Pixels |-> "none"]
    /\ rayOn = << >>
    /\ rayOff = << >>
    /\ group = << >>
    /\ ndrange = NoRange
    /\ path = << >>
    /\ handles = NoImages
    /\ queue = EmptyQueue
    /\ rawData = <<volData>>
    /\ props = [volume_res |-> Len(volData), format |-> "UCHAR",
                image_channel_order |-> "R"]
    /\ device = Initialized("GPU_GL")
    /\ useGL = TRUE
    /\ report = NoReport
    /\ request = [op |-> "loadVolumeData", file |-> RawFile(volData)]
    /\ outcome = NoError

\* the work items that write the texel of the tile in outHitImg: those that
\* return early with a 0 (667, 681) and the one with local id (0, 0) when it
\* reaches the end (917-923)
HitWriters(px, imgEss) ==
    {q \in Pixels : px[q].hitZero} \cup {q \in {1} : imgEss /\ px[q].atEnd}

\* the work items that reach barrier(CLK_LOCAL_MEM_FENCE) at 914 and 917
AtBarrier(px, imgEss) == {q \in Pixels : imgEss /\ px[q].atEnd}

\* the pixels whose colour in outImg is not the background colour
Lit(px, envirCol) == {q \in Pixels : px[q].img # ToUnorm(envirCol)}

\* the kernel runs for the work items of the tile: their writes to outImg and
\* to the texel of the tile in outHitImg, which keeps its value without a write
dispatchGroup ==
    /\ group = << >>
    /\ \E seed \in Seeds :
          \E px \in {WorkItems(NumPix, getLastHit(inputHitMem, 0),
                               WithSeed(rendering, seed))} :
             /\ outputMem' = [p \in Pixels |-> px[p].img]
             /\ \E h \in HitWrites(px, rendering.imgEss, outputHitMem.tile) :
                   outputHitMem' = [outputHitMem EXCEPT !.tile = h]
             /\ group' = <<[imgEss |-> rendering.imgEss,
                            writers |-> HitWriters(px, rendering.imgEss),
                            atBarrier |-> AtBarrier(px, rendering.imgEss),
                            lit |-> Lit(px, EnvirCol(rendering))]>>
    /\ UNCHANGED <<params, volume, tables, calls, history, rayOn, rayOff, path, ndrange>>
    /\ UNCHANGED <<inAccumulate, outAccumulate, inputHitMem, queueing, shell>>

NextGroup == dispatchGroup

SpecGroup == InitGroup /\ [][NextGroup]_vars

\* C21: in a frame with image-order ESS exactly one work item of the tile's
\* work-group writes the hit flag of the tile
C21_OneWriterPerTile ==
    \A i \in 1..Len(group) : group[i].imgEss => Cardinality(group[i].writers) = 1

\* C22: after a frame with image-order ESS the hit flag of the tile is 1 exactly
\* when a pixel of the tile is not the background colour
C22_FlagIffLit ==
    \A i \in 1..Len(group) :
       group[i].imgEss => (outputHitMem.tile = 1 <=> group[i].lit # {})

\* C28: in a work-group with image-order ESS all work items reach the barriers
\* of the reduce phase or none does
C28_BarrierAllOrNone ==
    \A i \in 1..Len(group) :
       group[i].imgEss => group[i].atBarrier \in {{}, Pixels}

(***************************************************************************)
(* The index space of a dispatch.  The output image is width x height      *)
(* pixels; raycast enqueues the kernel over a global size made of whole    *)
(* work-groups of LOCAL_SIZE x LOCAL_SIZE work items.                      *)
(***************************************************************************)
LOCAL_SIZE == 8
MaxSide == 10
Sides == 1..MaxSide

\* raycast, lines 2694-2695: width - (width % LOCAL_SIZE)
GlobalThreads(side) == side - (side % LOCAL_SIZE)

\* the pixels a dispatch has a work item for that passes the guard of the
\* kernel (part_000 605-607): globalId < get_image_dim(outImg)
Covered(r) ==
    {<<x, y>> \in (0..(r.width - 1)) \X (0..(r.height - 1)) :
        x < r.global[1] /\ y < r.global[2]}

\* resizeGL (volumerenderwidget.cpp 606-626): generateOutputTextures and with
\* it updateOutputImg (part_005 2646-2684) create the output image in the new
\* size
resizeGL(w, h) ==
    /\ ndrange' = [width |-> w, height |-> h, global |-> << >>]
    /\ UNCHANGED <<params, volume, tables, images, calls, history>>
    /\ UNCHANGED <<rayOn, rayOff, path, group, queueing, shell>>

\* raycast (2691-2700) called by paintGL with the size of the output image
\* (volumerenderwidget.cpp 519-520)
raycastNDRange ==
    /\ ndrange.width > 0
    /\ ndrange.global = << >>
    /\ ndrange' = [ndrange EXCEPT !.global = <<GlobalThreads(ndrange.width),
                                                GlobalThreads(ndrange.height)>>]
    /\ UNCHANGED <<params, volume, tables, images, calls, history>>
    /\ UNCHANGED <<rayOn, rayOff, path, group, queueing, shell>>

NextRange ==
    \/ \E w \in Sides, h \in Sides : resizeGL(w, h)
    \/ raycastNDRange

SpecRange == Init /\ [][NextRange]_vars

\* C27: whatever the size of the output image, the dispatch of a frame has one
\* work item for every pixel, so that every pixel is written
C27_OneThreadPerPixel ==
    ndrange.global # << >> =>
        /\ ndrange.global = <<ndrange.width, ndrange.height>>
        /\ Covered(ndrange) = (0..(ndrange.width - 1)) \X (0..(ndrange.height - 1))

(***************************************************************************)
(* The command queue (part_005 2318-2322) and the images a dispatch is     *)
(* bound to.  The host is one thread: it enqueues commands and, inside     *)
(* raycast, waits in finish() until the device has completed all of them.  *)
(* The device takes the commands in the order they were enqueued.  An      *)
(* image is known by a number; a command keeps the images it was bound to  *)
(* when it was enqueued.                                                   *)
(***************************************************************************)
MaxImages == 10
ImageIds == 1..MaxImages

Command(op, frame, reads, writes) ==
    [op |-> op, frame |-> frame, reads |-> reads, writes |-> writes]

\* the images a member or a command of the queue still refers to
Referenced(h, q) ==
    {h.inAccumulate, h.outAccumulate, h.inputHitMem, h.outputHitMem, q.wrote}
    \cup UNION {c.reads \cup c.writes : c \in q.running}
    \cup UNION {q.pending[i].reads \cup q.pending[i].writes : i \in DOMAIN q.pending}

\* the k-th smallest element of a set of numbers
RECURSIVE Smallest(_, _)
Smallest(S, k) ==
    LET m == CHOOSE x \in S : \A y \in S : x <= y
    IN  IF k = 1 THEN m ELSE Smallest(S \ {m}, k - 1)

\* a device that starts a command while another one runs: C20 has to tell it
\* from the queue that initialize creates
OutOfOrder(q) == TRUE

\* cqp is 0 or CL_QUEUE_PROFILING_ENABLE (2318-2321): without
\* CL_QUEUE_OUT_OF_ORDER_EXEC_MODE_ENABLE a command starts when the one before
\* has completed
InOrder(q) == q.running = {}

\* updateOutputImg (2646-2684) called by resizeGL: the four images are created
\* anew; the images they replace live on while a command refers to them
createImages ==
    /\ queue.host = "idle"
    /\ \E free \in {ImageIds \ Referenced(handles, [queue EXCEPT !.wrote = 0])} :
          handles' = [inAccumulate  |-> Smallest(free, 3),
                      outAccumulate |-> Smallest(free, 4),
                      inputHitMem   |-> Smallest(free, 2),
                      outputHitMem  |-> Smallest(free, 1)]
    /\ queue' = [queue EXCEPT !.wrote = 0]
    /\ UNCHANGED <<params, volume, tables, images, calls, history, rays, shell>>

\* runRaycast (2716-2726) and raycast (2691-2700) up to finish(): the kernel is
\* bound to the four members by setMemObjectsRaycast (2391-2397) and enqueued
\* after the acquire; binding a member without image throws
enqueueRaycast ==
    /\ queue.host = "idle"
    /\ useGL
    /\ volLoaded
    /\ rendering.iteration < MaxIter
    /\ 0 \notin {handles.inAccumulate, handles.outAccumulate,
                 handles.inputHitMem, handles.outputHitMem}
    /\ queue' = [queue EXCEPT
                   !.pending = @ \o
                      <<Command("acquire", rendering.iteration, {}, {}),
                        Command("kernel", rendering.iteration,
                                {handles.inAccumulate, handles.inputHitMem},
                                {handles.outAccumulate, handles.outputHitMem})>>,
                   !.host = "finish",
                   !.wrote = IF useImgESS THEN handles.outputHitMem ELSE 0]
    /\ UNCHANGED <<params, volume, tables, images, calls, history, rays, handles, shell>>

\* the device starts the command at the head of the queue
deviceStart ==
    /\ queue.pending # << >>
    /\ InOrder(queue)
    /\ queue' = [queue EXCEPT !.pending = Tail(@),
                              !.running = @ \cup {Head(queue.pending)}]
    /\ UNCHANGED <<params, volume, tables, images, calls, history, rays, handles, shell>>

\* the device completes a command
deviceComplete ==
    /\ \E c \in queue.running : queue' = [queue EXCEPT !.running = @ \ {c}]
    /\ UNCHANGED <<params, volume, tables, images, calls, history, rays, handles, shell>>

\* runRaycast after finish() has returned (2728-2738): the members of the hit
\* pair are swapped when _useImgESS is set, the copy of _outAccumulate to
\* _inAccumulate and the release are enqueued, and the call returns without
\* waiting for them
finishRaycast ==
    /\ queue.host = "finish"
    /\ queue.pending = << >>
    /\ queue.running = {}
    /\ \E h \in {IF useImgESS
                 THEN [handles EXCEPT !.inputHitMem = handles.outputHitMem,
                                      !.outputHitMem = handles.inputHitMem]
                 ELSE handles} :
          /\ handles' = h
          /\ queue' = [queue EXCEPT
                         !.pending = <<Command("copy", rendering.iteration,
                                               {h.outAccumulate}, {h.inAccumulate}),
                                       Command("release", rendering.iteration, {}, {})>>,
                         !.host = "idle"]
    /\ rendering' = [rendering EXCEPT !.iteration = @ + 1]
    /\ UNCHANGED <<camera, raycast, pathtrace, objEss, useImgESS>>
    /\ UNCHANGED <<volume, tables, images, calls, history, rays, shell>>

\* paintGL without display sharing (volumerenderwidget.cpp 522-531) calls
\* runRaycastNoGL (2753-2765): raycast binds the kernel to the four members and
\* enqueues it, and waits in finish()
enqueueRaycastNoGL ==
    /\ queue.host = "idle"
    /\ ~useGL
    /\ volLoaded
    /\ 0 \notin {handles.inAccumulate, handles.outAccumulate,
                 handles.inputHitMem, handles.outputHitMem}
    /\ queue' = [queue EXCEPT
                   !.pending = @ \o
                      <<Command("kernel", rendering.iteration,
                                {handles.inAccumulate, handles.inputHitMem},
                                {handles.outAccumulate, handles.outputHitMem})>>,
                   !.host = "finishNoGL",
                   !.wrote = IF useImgESS THEN handles.outputHitMem ELSE 0]
    /\ UNCHANGED <<params, volume, tables, images, calls, history, rays, handles, shell>>

\* runRaycastNoGL after raycast has returned (2766-2778): the output image is
\* read without blocking and the host waits in finish(); the members of the
\* hit pair stay as they are, and neither the copy of the accumulation nor
\* the increment of the iteration is made
readOutput ==
    /\ queue.host = "finishNoGL"
    /\ queue.pending = << >>
    /\ queue.running = {}
    /\ queue' = [queue EXCEPT
                   !.pending = <<Command("read", rendering.iteration, {}, {})>>,
                   !.host = "read"]
    /\ UNCHANGED <<params, volume, tables, images, calls, history, rays, handles, shell>>

\* paintGL after runRaycastNoGL has returned (volumerenderwidget.cpp 525-531):
\* the pixels go to the texture and updateOutputImg (2646-2684) creates the
\* four images anew
presentNoGL ==
    /\ queue.host = "read"
    /\ queue.pending = << >>
    /\ queue.running = {}
    /\ \E free \in {ImageIds \ Referenced(handles, queue)} :
          handles' = [inAccumulate  |-> Smallest(free, 3),
                      outAccumulate |-> Smallest(free, 4),
                      inputHitMem   |-> Smallest(free, 2),
                      outputHitMem  |-> Smallest(free, 1)]
    /\ queue' = [queue EXCEPT !.host = "idle"]
    /\ UNCHANGED <<params, volume, tables, images, calls, history, rays, shell>>

NextQueue ==
    \/ \E v \in HostVolumes : queue.host = "idle" /\ loadVolumeData(RawFile(v), 2)
    \/ \E e \in BOOLEAN : queue.host = "idle" /\ setImgEss(e)
    \/ createImages
    \/ enqueueRaycast
    \/ deviceStart
    \/ deviceComplete
    \/ finishRaycast

SpecQueue == Init /\ [][NextQueue]_vars

\* the widget from initializeGL on, with and without display sharing: the
\* platform decides which of the two paths paintGL takes
NextPresent ==
    \/ /\ device.kernels = "none"
       /\ \E platform \in Platforms : initVolumeRenderer(TRUE, FALSE, platform)
    \/ /\ device.kernels # "none"
       /\ queue.host = "idle"
       /\ \E v \in HostVolumes : loadVolumeData(RawFile(v), 2)
    \/ \E e \in BOOLEAN : queue.host = "idle" /\ setImgEss(e)
    \/ createImages
    \/ enqueueRaycast
    \/ enqueueRaycastNoGL
    \/ deviceStart
    \/ deviceComplete
    \/ finishRaycast
    \/ readOutput
    \/ presentNoGL

SpecPresent == InitDevice /\ [][NextPresent]_vars

\* C23: when a frame is dispatched with image-order ESS and the frame before it
\* ran with image-order ESS at the same output size, the hit image the frame
\* reads is the hit image the frame before was bound to write, with and
\* without display sharing
C23_ReadsWhatWasWritten ==
    [][(/\ queue.host = "idle"
        /\ queue'.host \in {"finish", "finishNoGL"}
        /\ useImgESS
        /\ queue.wrote # 0)
       => handles.inputHitMem = queue.wrote]_vars

\* C26: a frame enqueues one kernel dispatch, and when the call that renders the
\* frame returns to paintGL, which presents the output, every command the
\* frame has enqueued has completed
C26_FrameCompleteBeforePresent ==
    [][/\ (queue.host = "idle" /\ queue'.host # "idle") =>
             Cardinality({i \in DOMAIN queue'.pending :
                             queue'.pending[i].op = "kernel"}) = 1
       /\ (queue.host # "idle" /\ queue'.host = "idle") =>
             queue'.pending = << >> /\ queue'.running = {}]_vars

\* C20: while a kernel dispatch runs, the images it reads are none of the images
\* it writes, no other running command writes an image it reads, and the host
\* waits in finish(); every dispatch enqueued is bound to two different images
\* of the accumulation pair and two different images of the hit pair
C20_NoWriteWhileRead ==
    /\ \A k \in queue.running :
          k.op = "kernel" =>
             /\ k.reads \cap k.writes = {}
             /\ \A c \in queue.running \ {k} : c.writes \cap k.reads = {}
             /\ queue.host = "finish"
    /\ \A i \in DOMAIN queue.pending :
          queue.pending[i].op = "kernel" =>
             /\ queue.pending[i].reads \cap queue.pending[i].writes = {}
             /\ queue.host = "finish"

\* C20: the kernel of a later frame runs, bound to the hit pair that the frame
\* before has swapped
C20_Witness ==
    /\ \E k \in queue.running :
          /\ k.op = "kernel"
          /\ k.frame > 0
          /\ k.reads = {handles.inAccumulate, handles.inputHitMem}
          /\ handles.inputHitMem < handles.outputHitMem
    /\ useImgESS

Next ==
    \/ \E v \in HostVolumes, d \in BrickDivisors : loadVolumeData(RawFile(v), d)
    \/ updateOutputImg
    \/ \E v \in Views : updateView(v)
    \/ \E b \in ClipBoxes : setBBox(b)
    \/ \E t \in HostTables : setTransferFunction(t)
    \/ \E tech \in {TECH_RAYCAST, TECH_PATHTRACE} : setTechnique(tech)
    \/ \E t \in {0, 1} : setTimestep(t)
    \/ \E r \in SamplingRates : updateSamplingRate(r)
    \/ \E b \in BOOLEAN : setCamOrtho(b)
    \/ \E i \in {0, 1} : setIllumination(i)
    \/ \E b \in BOOLEAN : setAmbientOcclusion(b)
    \/ \E b \in BOOLEAN : setShowESS(b)
    \/ \E b \in BOOLEAN : setLinearInterpolation(b)
    \/ \E b \in BOOLEAN : setContours(b)
    \/ \E b \in BOOLEAN : setAerial(b)
    \/ \E b \in BOOLEAN : setImgEss(b)
    \/ \E b \in BOOLEAN : setObjEss(b)
    \/ \E c \in {0, One} : setBackground(c)
    \/ \E b \in BOOLEAN : setUseGradient(b)
    \/ \E x \in {50, 100} : setExtinction(x)
    \/ runRaycast

Spec == Init /\ [][Next]_vars

(***************************************************************************)
(* The transfer function on its own: the widget hands every table to the   *)
(* core, which derives the prefix sum, and then hands over the prefix sum  *)
(* it computed itself (volumerenderwidget.cpp 934-964).                    *)
(***************************************************************************)
\* The gradient stops of the transfer function editor: a colour at position 0,
\* a colour at position 1 and, in between, at most one more stop at entry 1 of
\* the table.  A colour is [c, a] like a table entry.
StopLevels == {0, 2, UCharMax}
StopColors == [a : StopLevels, c : {0, UCharMax}]
StopSets == [last : StopColors, first : StopColors, mid : {<< >>}]
            \cup [last : StopColors, first : {[a |-> 0, c |-> 0]},
                  mid : {<<m>> : m \in StopColors}]

\* _q_interpolate of two channel values: from + (to - from) * num / den, rounded
Mix(from, to, num, den) == from + (2 * (to - from) * num + den) \div (2 * den)

\* interpolator.currentValue() at table entry i (0-based) of n, with the linear
\* easing curve: the key values on both sides of i/n are mixed
KeyValueAt(stops, i, n) ==
    LET between(lo, hi, num, den) ==
            [a |-> Mix(lo.a, hi.a, num, den), c |-> Mix(lo.c, hi.c, num, den)]
    IN  IF stops.mid = << >> THEN between(stops.first, stops.last, i, n)
        ELSE IF i < 1 THEN between(stops.first, stops.mid[1], i, 1)
        ELSE between(stops.mid[1], stops.last, i - 1, n - 1)

\* uchar(qMax(0, channel - 3)) (volumerenderwidget.cpp 948-951 and 1003-1006)
Darkened(channel) == Max(0, channel - 3) % (UCharMax + 1)

\* getRawTransferFunction without the subtraction: C19 has to tell it from
\* getRawTransferFunction
KeyValues(stops) == [i \in 1..TffSize |-> KeyValueAt(stops, i - 1, TffSize)]

\* VolumeRenderWidget::getRawTransferFunction (986-1009)
getRawTransferFunction(stops) ==
    [i \in 1..TffSize |->
        [a |-> Darkened(KeyValueAt(stops, i - 1, TffSize).a),
         c |-> Darkened(KeyValueAt(stops, i - 1, TffSize).c)]]

\* the table VolumeRenderWidget::updateTransferFunction computes (936-953)
TableOfStops(stops) ==
    [i \in 1..TffSize |->
        [a |-> Darkened(KeyValueAt(stops, i - 1, TffSize).a),
         c |-> Darkened(KeyValueAt(stops, i - 1, TffSize).c)]]

\* VolumeRenderWidget::updateTransferFunction: the table from the stops, then
\* setTransferFunction, then partial_sum over the alphas and setTffPrefixSum
updateTransferFunction(stops) ==
    /\ rawData # << >>
    /\ SetterCall
    /\ tffMem' = TableOfStops(stops)
    /\ tffPrefixMem' = partial_sum(Alpha(TableOfStops(stops)))
    /\ rendering' = resetIteration(rendering)
    /\ Change(TableOfStops(stops) # tffMem)
    /\ accAge' = AgeAtReset(accAge)
    /\ request' = [op |-> "updateTransferFunction", stops |-> stops]
    /\ outcome' = NoError
    /\ UNCHANGED <<camera, raycast, pathtrace, objEss, useImgESS, volume, images>>
    /\ UNCHANGED <<dispatch, sample, outAge, rays, queueing>>
    /\ UNCHANGED <<rawData, props, device, useGL, report>>

\* VolumeRenderWidget::setRawTransferFunction (917-928): the core's
\* setTransferFunction (part_005 3020-3047), which derives the prefix sum
setRawTransferFunction(tff) ==
    /\ rawData # << >>
    /\ SetterCall
    /\ tffMem' = tff
    /\ tffPrefixMem' = PrefixSumOf(tff)
    /\ rendering' = resetIteration(rendering)
    /\ Change(tff # tffMem)
    /\ accAge' = AgeAtReset(accAge)
    /\ request' = [tff |-> tff, op |-> "setRawTransferFunction"]
    /\ outcome' = NoError
    /\ UNCHANGED <<camera, raycast, pathtrace, objEss, useImgESS, volume, images>>
    /\ UNCHANGED <<dispatch, sample, outAge, rays, queueing>>
    /\ UNCHANGED <<rawData, props, device, useGL, report>>

NextTff ==
    \/ \E v \in HostVolumes, d \in BrickDivisors : loadVolumeData(RawFile(v), d)
    \/ \E t \in Tables : setTransferFunction(t)
    \/ \E s \in StopSets : updateTransferFunction(s)

SpecTff == Init /\ [][NextTff]_vars

\* the stops set in the editor, and a raw table written by getRawTransferFunction
\* (mainwindow.cpp 686-692) read back (mainwindow.cpp 703-724)
NextStops ==
    \/ \E v \in HostVolumes : loadVolumeData(RawFile(v), 2)
    \/ \E s \in StopSets : updateTransferFunction(s)
    \/ \E s \in StopSets : setRawTransferFunction(getRawTransferFunction(s))

SpecStops == Init /\ [][NextStops]_vars

\* C19: after setRawTransferFunction(getRawTransferFunction(stops)) the renderer
\* holds the table and the prefix sum that updateTransferFunction(stops) leaves,
\* and starts the accumulation anew, so that the next frame is the same
C19_RawRoundTrip ==
    \A s \in StopSets :
       request.op = "setRawTransferFunction" /\ request.tff = getRawTransferFunction(s)
          => /\ tffMem = TableOfStops(s)
             /\ tffPrefixMem = partial_sum(Alpha(TableOfStops(s)))
             /\ rendering.iteration = 0

\* C19: a table with darkened channels, some clamped at 0, has been read back
C19_Witness ==
    /\ request.op = "setRawTransferFunction"
    /\ \E s \in StopSets :
          /\ request.tff = getRawTransferFunction(s)
          /\ request.tff # KeyValues(s)
          /\ s.first.a = 2
          /\ s.last.a = UCharMax
    /\ tffMem = request.tff
    /\ tffPrefixMem[Len(tffMem)] > 0

\* frames between the calls that hand over a table: raycast binds _tffMem and
\* _tffPrefixMem as they are when the frame is dispatched (part_005 2381, 2388)
BoundTables == {Opaque, [Transparent EXCEPT ![TffSize].a = 128]}
BoundStops ==
    {s \in StopSets : s.mid = << >> /\ s.first.c = 0 /\ s.last.c = 0 /\ s.first.a # s.last.a
                       /\ s.last.a # 0}

NextBind ==
    \/ \E v \in HostVolumes : loadVolumeData(RawFile(v), 2)
    \/ updateOutputImg
    \/ \E t \in BoundTables : setTransferFunction(t)
    \/ \E s \in BoundStops : updateTransferFunction(s)
    \/ runRaycast

SpecBind == Init /\ [][NextBind]_vars

C7_PrefixSum ==
    tffMem # << >> =>
        /\ Len(tffPrefixMem) = Len(tffMem)
        /\ \A i \in 1..Len(tffMem) :
              tffPrefixMem[i] = (IF i = 1 THEN 0 ELSE tffPrefixMem[i - 1]) + tffMem[i].a
        /\ \A i \in 2..Len(tffMem) : tffPrefixMem[i] >= tffPrefixMem[i - 1]
        /\ LET sum[i \in 0..Len(tffMem)] ==
                    IF i = 0 THEN 0 ELSE sum[i - 1] + tffMem[i].a
           IN  tffPrefixMem[Len(tffMem)] = sum[Len(tffMem)]

\* C7 witness: a table with alpha in its first and in its last entry
C7_Witness ==
    /\ tffMem # << >>
    /\ tffMem[1].a > 0
    /\ tffMem[Len(tffMem)].a > 0
    /\ tffPrefixMem[Len(tffMem)] > tffPrefixMem[1]

(***************************************************************************)
(* Claims about the host object.                                           *)
(***************************************************************************)
\* A step that renders a frame is one that increments the iteration counter.

C2_RunningMean ==
    [][rendering'.iteration = rendering.iteration + 1 =>
          \A p \in Pixels :
              /\ outAccumulate'[p] =
                     ToUnorm(Accumulate(Unorm(inAccumulate[p]), sample'[p],
                                        rendering.iteration))
              /\ inAccumulate'[p] = outAccumulate'[p]]_vars

\* C5: no pixel of a frame is computed from a value that was in the
\* accumulation buffers before the last reset of the iteration counter.
C5_NoStaleInfluence == \A p \in DOMAIN outAge : outAge[p] # "stale"

\* C6: when a setter of the core returns, the iteration counter is 0.
C6_SetterResets == [][calls' = calls + 1 => rendering'.iteration = 0]_vars

\* C8: a raycast frame with a table whose alphas are all 0 gives every pixel
\* the background colour (the overlay of showEss left aside).
C8_TransparentIsBackground ==
    [][(/\ rendering'.iteration = rendering.iteration + 1
        /\ \A i \in DOMAIN tffMem : tffMem[i].a = 0
        /\ rendering.technique = TECH_RAYCAST
        /\ ~rendering.showEss)
       => \A p \in Pixels : outputMem'[p] = ToUnorm(EnvirCol(rendering))]_vars

====
